---- MODULE Spec2Model ----
(***************************************************************************)
(* Model of tambo's SoundGenerator (js/sound-generators/SoundGenerator,    *)
(* stored in src/js/sound-generators/SharedSoundClip.js lines 43-308):     *)
(* the enable-control aggregation, the master gain envelope and the        *)
(* connection list; of its subclasses PitchedPopGenerator (the pool of     *)
(* voices) and NoiseGenerator (start and stop); and of the stubbed audio   *)
(* context of phetAudioContext.js.                                         *)
(*                                                                         *)
(* Collaborators that are not part of the repository are modelled by what  *)
(* the generator observes of them:                                         *)
(*  - AXON Property: setting a new value notifies every linked listener    *)
(*    synchronously, setting the current value notifies nobody, link()     *)
(*    registers the listener and calls it once at once, unlink() removes   *)
(*    one registration; with assertions enabled, linking a listener that   *)
(*    is already linked throws.                                            *)
(*  - AXON ObservableArray: push() appends and then notifies the           *)
(*    item-added listeners, remove() deletes the first occurrence and then *)
(*    notifies the item-removed listeners, clear() removes every item.     *)
(*  - Web Audio AudioParam: an automation timeline ordered by time.        *)
(* Time is counted in ticks from the moment of construction.               *)
(***************************************************************************)
EXTENDS Integers, Sequences, FiniteSets, TLC

VARIABLES
    assertionsEnabled,        \* the global `assert` is defined (development build)
    pc,                       \* "new", "live" (constructed) or "failed" (constructor threw)
    options,                  \* the options object handed to the constructor
    sigValue,                 \* current value of every Property used as enable control
    enableControlProperties,  \* this.enableControlProperties (ObservableArray contents)
    linked,                   \* per Property: registrations of updateFullyEnabledState
    removers,                 \* per Property: registered checkAndRemove closures
    fullyEnabled,             \* this.fullyEnabledProperty.value
    outputLevel,              \* this._outputLevel
    nodeCreated,              \* this.masterGainNode exists
    gainCommands,             \* calls made on masterGainNode.gain, in call order
    connectionList,           \* this.connectionList
    routed,                   \* sinks masterGainNode is connected to in the audio graph
    now,                      \* audioContext.currentTime
    phetAudioContext,         \* the shared audio context: Web Audio or the stub
    generator,                \* the class that was instantiated
    soundSources,             \* PitchedPopGenerator: this.soundSources (the voices)
    nextSoundSourceIndex,     \* PitchedPopGenerator: this.nextSoundSourceIndex
    playPopCalls,             \* number of playPop calls made since construction
    retuneLog,                \* voices (0-based) in the order they were retuned
    popCalls,                 \* the calls the latest playPop made on the nodes of voices
    isPlaying,                \* NoiseGenerator: this.isPlaying
    noiseSource,              \* NoiseGenerator: this.noiseSource (0 for null)
    lfoFrequency,             \* NoiseGenerator: the target last set on this.lfo.frequency
    bufferSourcesCreated,     \* number of createBufferSource() calls made
    noiseType,                \* NoiseGenerator: options.noiseType
    stoppedSources,           \* the buffer sources stop() was called on, in order
    _soundClip,               \* SharedSoundClip: this._soundClip of each instance
    proxiesConstructed,       \* number of AutoRegisteringSoundClipProxy objects made
    soundClipReads,           \* what each read of soundClip returned, per instance
    currentScreenProperty,    \* the value of currentScreenProperty (0 for null)
    iconIndexProperty,        \* the value of iconIndexProperty
    screenSelection,          \* whether the ScreenSelectionSoundGenerator exists
    playedSounds              \* the sounds asked of playAssociatedSound, in order

popVars == <<soundSources, nextSoundSourceIndex, playPopCalls, retuneLog, popCalls>>
noiseVars == <<isPlaying, noiseSource, lfoFrequency, bufferSourcesCreated, noiseType,
               stoppedSources>>
subclassVars == <<generator, popVars, noiseVars>>
baseVars == <<assertionsEnabled, pc, options, sigValue, enableControlProperties, linked,
              removers, fullyEnabled, outputLevel, nodeCreated, gainCommands,
              connectionList, routed, now>>

clipVars == <<_soundClip, proxiesConstructed, soundClipReads>>
screenVars == <<currentScreenProperty, iconIndexProperty, screenSelection, playedSounds>>
standaloneVars == <<clipVars, screenVars>>

vars == <<baseVars, phetAudioContext, subclassVars, standaloneVars>>

(***************************************************************************)
(* Bounds of the model                                                     *)
(***************************************************************************)
MaxTime == 2
MaxEvents == 7
MaxMembers == 3
MaxConnections == 3
MaxInitialSignals == 2
MaxVoices == 3
MaxPops == 5
MaxSources == 3
MaxReads == 3
MaxPlays == 4
MaxScreens == 2
MaxIcons == 2

(***************************************************************************)
(* Program constants, in ticks                                             *)
(***************************************************************************)
DEFAULT_LINEAR_GAIN_CHANGE_TIME == 2
DEFAULT_TIME_CONSTANT == 1

\* PitchedPopGenerator: the ends of options.pitchRange, in Hz; NoiseGenerator:
\* options.lfoInitialFrequency, in Hz
PitchRangeMin == 220
PitchRangeMax == 660
LfoInitialFrequency == 2

\* PitchedPopGenerator: the envelope of a pop, in ticks of 5 ms
ENVELOPE_TIME_CONSTANT == 1
DEFAULT_POP_DURATION == 4

(***************************************************************************)
(* Input domains                                                           *)
(***************************************************************************)
BooleanSignals == {"s1", "s2"}
NumberSignals == {"n1"}
ExternalSignals == BooleanSignals \cup NumberSignals
LocalSignal == "local"
AllSignals == ExternalSignals \cup {LocalSignal}
Levels == {-1, 0, 1, 2}
\* the timeConstant argument left out (undefined in JavaScript)
Undefined == -1
TimeConstants == {Undefined, 0, 1}
Destination == "destination"
Sinks == {Destination, "a"}

\* null, for a field or a Property that holds an object numbered from 1
Null == 0

\* the shared sound players of the repository, each one a SharedSoundClip made
\* when its module is loaded; NotLoaded stands for an instance not yet made
SharedSoundClips == {"toggleOffSoundPlayer", "checkboxCheckedSoundPlayer"}
NotLoaded == -1

\* the values of currentScreenProperty (null is the home screen) and of
\* iconIndexProperty
Screens == {Null} \cup (1..MaxScreens)
IconIndexes == 0..(MaxIcons - 1)

\* typeof enableControlProperty.value === 'boolean'.  The Properties of
\* NumberSignals hold the numbers 0 and 1; sigValue records a number by its
\* truthiness (FALSE for 0, TRUE for 1), which is all that _.every reads.
IsBoolean(s) == s \notin NumberSignals

\* enableControlProperty => enableControlProperty.value, read as a condition
Truthy(vals, s) == vals[s]

(***************************************************************************)
(* Exact arithmetic on gain values: a value is <<numerator, denominator>>  *)
(* in lowest terms with a positive denominator.                            *)
(***************************************************************************)
Abs(x) == IF x < 0 THEN -x ELSE x

RECURSIVE GCD(_, _)
GCD(a, b) == IF b = 0 THEN a ELSE GCD(b, a % b)

Rat(n, d) ==
    LET g == GCD(Abs(n), d) IN
    IF n = 0 THEN <<0, 1>> ELSE <<n \div g, d \div g>>

RECURSIVE Pow2(_)
Pow2(k) == IF k = 0 THEN 1 ELSE 2 * Pow2(k - 1)

(***************************************************************************)
(* Web Audio AudioParam automation                                         *)
(***************************************************************************)
\* gain.setValueAtTime( value, time )
SetValueAtTime(value, time) ==
    [type |-> "setValue", value |-> value, time |-> time, timeConstant |-> 0]

\* gain.linearRampToValueAtTime( value, endTime )
LinearRampToValueAtTime(value, time) ==
    [type |-> "linearRamp", value |-> value, time |-> time, timeConstant |-> 0]

\* gain.setTargetAtTime( target, startTime, timeConstant )
SetTargetAtTime(value, time, timeConstant) ==
    [type |-> "setTarget", value |-> value, time |-> time, timeConstant |-> timeConstant]

\* The value an event holds at its own time: a set-value or a ramp holds its
\* value, an exponential approach starts from the value the parameter had.
EventValue(e) == IF e.type = "setTarget" THEN e.from ELSE <<e.value, 1>>

\* The value of the parameter at time t for the timeline tl (events ordered by
\* time).  A linear ramp interpolates from the previous event to its own end
\* time; an exponential approach halves its distance to the target once per
\* time constant; otherwise the last event's value is held.  An AudioParam of
\* a GainNode without events has its default value 1.
ValueAt(tl, t) ==
    LET past == {i \in 1..Len(tl) : tl[i].time <= t}
        i == Cardinality(past)
    IN  IF i = 0 THEN <<1, 1>>
        ELSE LET e == tl[i]
                 v0 == EventValue(e)
             IN  IF i < Len(tl) /\ tl[i + 1].type = "linearRamp"
                 THEN LET span == tl[i + 1].time - e.time
                          v1 == tl[i + 1].value
                      IN  Rat(v0[1] * span + (v1 * v0[2] - v0[1]) * (t - e.time),
                              v0[2] * span)
                 ELSE IF e.type = "setTarget"
                 THEN LET k == Pow2((t - e.time) \div e.timeConstant)
                      IN  Rat(e.value * v0[2] * k + (v0[1] - e.value * v0[2]), v0[2] * k)
                 ELSE <<e.value, 1>>

\* Insertion of a new event: an event of the same type at the same time is
\* replaced, otherwise the event goes after every event whose time is not later.
InsertEvent(tl, e) ==
    LET same == {i \in 1..Len(tl) : tl[i].time = e.time /\ tl[i].type = e.type}
        pos == Cardinality({i \in 1..Len(tl) : tl[i].time <= e.time})
    IN  IF same # {}
        THEN [i \in 1..Len(tl) |-> IF i \in same THEN e ELSE tl[i]]
        ELSE SubSeq(tl, 1, pos) \o <<e>> \o SubSeq(tl, pos + 1, Len(tl))

\* An exponential approach starts from the value the parameter has when it
\* begins: the value left by the event just before it when that event has the
\* same time, else the value the parameter had reached when the call was made.
StartValues(tl) ==
    [i \in 1..Len(tl) |->
        IF tl[i].type = "setTarget" /\ i > 1 /\ tl[i - 1].time = tl[i].time
        THEN [tl[i] EXCEPT !.from = <<tl[i - 1].value, 1>>]
        ELSE tl[i]]

\* The automation timeline that results from the calls cmds, made in this
\* order, each at the audio time it names as its own start.
RECURSIVE Timeline(_)
Timeline(cmds) ==
    IF cmds = <<>> THEN <<>>
    ELSE LET before == Timeline(SubSeq(cmds, 1, Len(cmds) - 1))
             c == cmds[Len(cmds)]
             start == IF c.type = "setTarget" THEN ValueAt(before, c.time) ELSE <<c.value, 1>>
         IN  StartValues(InsertEvent(before, [type |-> c.type, value |-> c.value,
                                              time |-> c.time,
                                              timeConstant |-> c.timeConstant,
                                              from |-> start]))

\* The gain the listener hears at time t
GainAt(cmds, t) == ValueAt(Timeline(cmds), t)

\* The gain once every scheduled event has elapsed: the last event of the
\* timeline ends at its value (a set-value, the end of a ramp, the target of an
\* exponential approach)
SteadyStateGain(cmds) ==
    LET tl == Timeline(cmds) IN
    IF tl = <<>> THEN 1 ELSE tl[Len(tl)].value

(***************************************************************************)
(* phetAudioContext: Web Audio where the platform has it, else the stub    *)
(***************************************************************************)
AudioContexts == {"webAudio", "stubbed"}

\* STUBBED_AUDIO_CONTEXT: what each object returned by a create method of the
\* stub has; a parameter object is named by itself (it can be assigned to) and
\* each of its methods as parameter.method
StubbedNodeMembers ==
    [biquadFilter |-> {"connect", "frequency", "frequency.setTargetAtTime",
                       "frequency.setValueAtTime", "Q", "Q.setValueAtTime"},
     buffer |-> {"getChannelData"},
     bufferSource |-> {"connect", "disconnect", "start", "stop"},
     convolver |-> {"connect"},
     dynamicsCompressor |-> {"attack", "attack.setValueAtTime", "connect",
                             "knee", "knee.setValueAtTime",
                             "ratio", "ratio.setValueAtTime",
                             "release", "release.setValueAtTime",
                             "threshold", "threshold.setValueAtTime"},
     gain |-> {"connect", "disconnect", "gain", "gain.cancelScheduledValues",
               "gain.setTargetAtTime", "gain.setValueAtTime"},
     oscillator |-> {"connect", "start", "frequency",
                     "frequency.linearRampToValueAtTime",
                     "frequency.setValueAtTime"}]

\* A use <<node, member>> of a node works on Web Audio, and on the stub when
\* the stubbed node has the member; calling a member that is missing throws
Supported(context, use) ==
    context = "webAudio" \/ use[2] \in StubbedNodeMembers[use[1]]

Fails(context, uses) == \E i \in 1..Len(uses) : ~Supported(context, uses[i])

\* What the listener linked to fullyEnabledProperty calls on masterGainNode
FullyEnabledListenerCalls ==
    << <<"gain", "gain.setValueAtTime">>, <<"gain", "gain.linearRampToValueAtTime">> >>

\* What the SoundGenerator constructor calls on masterGainNode; link() runs
\* the fullyEnabled listener once
SoundGeneratorConstructorCalls(connectImmediately) ==
    << <<"gain", "gain.setValueAtTime">> >>
    \o (IF connectImmediately THEN << <<"gain", "connect">> >> ELSE << >>)
    \o FullyEnabledListenerCalls

\* What the PitchedPopGenerator constructor uses of the compressor and of the
\* oscillator and gain node of each voice
PitchedPopGeneratorConstructorCalls ==
    << <<"dynamicsCompressor", "threshold">>, <<"dynamicsCompressor", "knee">>,
       <<"dynamicsCompressor", "ratio">>, <<"dynamicsCompressor", "attack">>,
       <<"dynamicsCompressor", "release">>, <<"dynamicsCompressor", "connect">>,
       <<"oscillator", "frequency.setValueAtTime">>, <<"oscillator", "start">>,
       <<"gain", "gain.setValueAtTime">>, <<"oscillator", "connect">>,
       <<"gain", "connect">> >>

\* What the NoiseGenerator constructor uses when no filter is asked for
NoiseGeneratorConstructorCalls(lfoInitiallyEnabled) ==
    << <<"buffer", "getChannelData">>,
       <<"oscillator", "frequency.setValueAtTime">>, <<"oscillator", "start">>,
       <<"gain", "gain">>, <<"oscillator", "connect">>, <<"gain", "gain">>,
       <<"gain", "gain.setTargetAtTime">> >>
    \o (IF lfoInitiallyEnabled THEN << <<"gain", "connect">> >> ELSE << >>)
    \o << <<"gain", "connect">> >>

\* What the operations of the subclasses call
PlayPopCalls ==
    << <<"gain", "gain.cancelScheduledValues">>,
       <<"oscillator", "frequency.setValueAtTime">>,
       <<"gain", "gain.setValueAtTime">>,
       <<"oscillator", "frequency.linearRampToValueAtTime">>,
       <<"gain", "gain.setTargetAtTime">>, <<"gain", "gain.setTargetAtTime">> >>
StartCalls == << <<"bufferSource", "connect">>, <<"bufferSource", "start">> >>
StopCalls == << <<"bufferSource", "stop">>, <<"bufferSource", "disconnect">> >>
SetLfoFrequencyCalls == << <<"oscillator", "frequency.setTargetAtTime">> >>

(***************************************************************************)
(* SoundGenerator: enable-control aggregation                              *)
(***************************************************************************)
\* Variant: only the first enable-control Property is consulted
UpdateFullyEnabledState_FirstOnly(members, vals) ==
    members = << >> \/ Truthy(vals, members[1])

\* updateFullyEnabledState: _.every over the array of enable-control Properties
UpdateFullyEnabledState(members, vals) ==
    \A i \in 1..Len(members) : Truthy(vals, members[i])

\* Variant: the enable ramp goes to full gain instead of the output level
FullyEnabledListener_ToFullGain(enabled, level, t) ==
    << SetValueAtTime(IF enabled THEN 0 ELSE level, t),
       [type |-> "linearRamp", value |-> IF enabled THEN 1 ELSE 0,
        time |-> t + DEFAULT_LINEAR_GAIN_CHANGE_TIME, timeConstant |-> 0] >>

\* Variant: the pin is always at 0
FullyEnabledListener_PinAtZero(enabled, level, t) ==
    << SetValueAtTime(0, t),
       LinearRampToValueAtTime(IF enabled THEN level ELSE 0,
                               t + DEFAULT_LINEAR_GAIN_CHANGE_TIME) >>

\* The listener linked to fullyEnabledProperty: pin the gain, then ramp it
FullyEnabledListener(enabled, level, t) ==
    LET previousGainSetting == IF enabled THEN 0 ELSE level
        newGainSetting == IF enabled THEN level ELSE 0
    IN  << SetValueAtTime(previousGainSetting, t),
           LinearRampToValueAtTime(newGainSetting, t + DEFAULT_LINEAR_GAIN_CHANGE_TIME) >>

\* fullyEnabledProperty.value = newValue: the listener runs only when the value
\* changes and only once it has been linked (the generator is constructed)
SetFullyEnabled(cmds, listening, oldValue, newValue, level, t) ==
    IF listening /\ newValue # oldValue
    THEN cmds \o FullyEnabledListener(newValue, level, t)
    ELSE cmds

\* Variant: the added Property is evaluated once but never linked
ItemAdded_NotLinked(st, item, vals, asserts) ==
    [st EXCEPT !.members = Append(st.members, item),
               !.fullyEnabled = \A i \in 1..Len(st.members) + 1 :
                                   Truthy(vals, Append(st.members, item)[i])]

\* Variant: the added Property is linked without an immediate evaluation
ItemAdded_LazyLink(st, item, vals, asserts) ==
    [st EXCEPT !.members = Append(st.members, item),
               !.linked[item] = @ + 1,
               !.removers[item] = @ + 1]

\* The item-added listener of enableControlProperties, run by push( item ).
\* st is [members, linked, removers, fullyEnabled, threw]; the item has been
\* appended to the array when the listener runs.
ItemAdded(st, item, vals, asserts) ==
    LET members == Append(st.members, item) IN
    IF asserts /\ st.linked[item] > 0
    THEN [st EXCEPT !.members = members, !.threw = TRUE]
    ELSE [st EXCEPT !.members = members,
                    !.linked[item] = @ + 1,
                    !.removers[item] = @ + 1,
                    !.fullyEnabled = UpdateFullyEnabledState(members, vals)]

\* Variant: only the first supplied Property is added
AddAll_FirstOnly(st, items, vals, asserts) ==
    IF items = << >> THEN st ELSE ItemAdded(st, Head(items), vals, asserts)

\* options.enableControlProperties.forEach( addEnableControlProperty ), which
\* stops at the first call that throws
RECURSIVE AddAll(_, _, _, _)
AddAll(st, items, vals, asserts) ==
    IF items = <<>> \/ st.threw THEN st
    ELSE AddAll(ItemAdded(st, Head(items), vals, asserts), Tail(items), vals, asserts)

\* Variant: only the first occurrence of x is dropped
Without_FirstOnly(list, x) ==
    LET hits == {i \in 1..Len(list) : list[i] = x} IN
    IF hits = {} THEN list
    ELSE LET k == CHOOSE i \in hits : \A j \in hits : i <= j
         IN  SubSeq(list, 1, k - 1) \o SubSeq(list, k + 1, Len(list))

\* _.without( list, x ): every occurrence of x is dropped
RECURSIVE Without(_, _)
Without(list, x) ==
    IF list = <<>> THEN <<>>
    ELSE IF Head(list) = x THEN Without(Tail(list), x)
    ELSE <<Head(list)>> \o Without(Tail(list), x)

\* ObservableArray.remove( item ): the first occurrence is spliced out
RemoveFirst(list, x) ==
    LET hits == {i \in 1..Len(list) : list[i] = x} IN
    IF hits = {} THEN list
    ELSE LET k == CHOOSE i \in hits : \A j \in hits : i <= j
         IN  SubSeq(list, 1, k - 1) \o SubSeq(list, k + 1, Len(list))

Count(list, x) == Cardinality({i \in 1..Len(list) : list[i] = x})

\* isConnectedTo( audioParam )
IsConnectedTo(list, sink) == \E i \in 1..Len(list) : list[i] = sink

\* Variant: an omitted time constant counts as 0
EffectiveTimeConstant_UndefinedIsZero(timeConstant) ==
    IF timeConstant = Undefined THEN 0 ELSE timeConstant

\* timeConstant = ( timeConstant === undefined ) ? DEFAULT_TIME_CONSTANT : timeConstant
EffectiveTimeConstant(timeConstant) ==
    IF timeConstant = Undefined THEN DEFAULT_TIME_CONSTANT ELSE timeConstant

\* Variant: a zero time constant always sets the gain at once
SetOutputLevelCommands_Unguarded(level, timeConstant, enabled, t) ==
    IF timeConstant = 0
    THEN << SetValueAtTime(level, t) >>
    ELSE IF enabled
         THEN << SetTargetAtTime(level, t, IF timeConstant = Undefined
                                           THEN DEFAULT_TIME_CONSTANT ELSE timeConstant) >>
         ELSE << >>

\* Variant: a level of 0 is not applied while disabled either
SetOutputLevelCommands_EnabledOnly(level, timeConstant, enabled, t) ==
    LET tc == EffectiveTimeConstant(timeConstant) IN
    IF ~enabled THEN << >>
    ELSE IF tc = 0 THEN << SetValueAtTime(level, t) >>
    ELSE << SetTargetAtTime(level, t, tc) >>

\* The gain calls of setOutputLevel( level, timeConstant )
SetOutputLevelCommands(level, timeConstant, enabled, t) ==
    LET tc == EffectiveTimeConstant(timeConstant) IN
    IF tc = 0
    THEN IF level = 0 \/ enabled THEN << SetValueAtTime(level, t) >> ELSE << >>
    ELSE IF enabled THEN << SetTargetAtTime(level, t, tc) >> ELSE << >>

\* Variants: the level check lets -1 through; the type check reads only the
\* first supplied Property
OutputLevelAsserted_OffByOne(asserts, level) == asserts /\ ~(level >= -1)
EnableControlTypeAsserted_FirstOnly(asserts, items) ==
    asserts /\ items # << >> /\ ~IsBoolean(items[1])

\* The two constructor preconditions, checked only when assertions are enabled
OutputLevelAsserted(asserts, level) == asserts /\ ~(level >= 0)
EnableControlTypeAsserted(asserts, items) ==
    asserts /\ \E i \in 1..Len(items) : ~IsBoolean(items[i])

(***************************************************************************)
(* State before construction                                               *)
(***************************************************************************)
DefaultOptions ==
    [initialOutputLevel |-> 1, enableControlProperties |-> << >>,
     connectImmediately |-> FALSE]

Init ==
    /\ assertionsEnabled \in BOOLEAN
    /\ pc = "new"
    /\ options = DefaultOptions
    /\ sigValue \in {f \in [AllSignals -> BOOLEAN] : f[LocalSignal] = TRUE}
    /\ enableControlProperties = << >>
    /\ linked = [s \in AllSignals |-> 0]
    /\ removers = [s \in AllSignals |-> 0]
    /\ fullyEnabled = TRUE
    /\ outputLevel = DefaultOptions.initialOutputLevel
    /\ nodeCreated = FALSE
    /\ gainCommands = << >>
    /\ connectionList = << >>
    /\ routed = {}
    /\ now = 0
    /\ phetAudioContext \in AudioContexts
    /\ generator = "none"
    /\ soundSources = << >>
    /\ nextSoundSourceIndex = 0
    /\ playPopCalls = 0
    /\ retuneLog = << >>
    /\ popCalls = << >>
    /\ isPlaying = FALSE
    /\ noiseSource = 0
    /\ lfoFrequency = LfoInitialFrequency
    /\ bufferSourcesCreated = 0
    /\ noiseType = "none"
    /\ stoppedSources = << >>
    /\ _soundClip = [c \in SharedSoundClips |-> NotLoaded]
    /\ proxiesConstructed = 0
    /\ soundClipReads = [c \in SharedSoundClips |-> << >>]
    /\ currentScreenProperty = Null
    /\ iconIndexProperty = 0
    /\ screenSelection = "none"
    /\ playedSounds = << >>

\* Sequences over S of length at most n
SeqsUpTo(S, n) == UNION {[1..k -> S] : k \in 0..n}

(***************************************************************************)
(* new SoundGenerator( options )                                           *)
(***************************************************************************)
\* The SoundGenerator constructor, followed by the uses of audio nodes that the
\* constructor of a subclass makes after it (subclassCalls) and by the throw
\* statement of the subclass constructor, if it reaches one (subclassThrows)
SoundGeneratorConstructorThen(level, items, connectImmediately, subclassCalls, subclassThrows) ==
    /\ pc = "new"
    /\ options' = [initialOutputLevel |-> level, enableControlProperties |-> items,
                   connectImmediately |-> connectImmediately]
    /\ IF \/ OutputLevelAsserted(assertionsEnabled, level)
          \/ EnableControlTypeAsserted(assertionsEnabled, items)
       THEN /\ pc' = "failed"
            /\ UNCHANGED <<sigValue, enableControlProperties, linked, removers,
                           fullyEnabled, outputLevel, nodeCreated, gainCommands,
                           connectionList, routed>>
       ELSE LET vals == [sigValue EXCEPT ![LocalSignal] = TRUE]
                empty == [members |-> << >>, linked |-> linked, removers |-> removers,
                          fullyEnabled |-> TRUE, threw |-> FALSE]
                supplied == AddAll(empty, items, vals, assertionsEnabled)
                all == ItemAdded(supplied, LocalSignal, vals, assertionsEnabled)
            IN  IF supplied.threw
                THEN /\ pc' = "failed"
                     /\ outputLevel' = level
                     /\ enableControlProperties' = supplied.members
                     /\ linked' = supplied.linked
                     /\ removers' = supplied.removers
                     /\ fullyEnabled' = supplied.fullyEnabled
                     /\ UNCHANGED <<sigValue, nodeCreated, gainCommands,
                                    connectionList, routed>>
                ELSE /\ outputLevel' = level
                     /\ sigValue' = vals
                     /\ enableControlProperties' = all.members
                     /\ linked' = all.linked
                     /\ removers' = all.removers
                     /\ fullyEnabled' = all.fullyEnabled
                     /\ nodeCreated' = TRUE
                     /\ connectionList' = << >>
                     /\ IF Fails(phetAudioContext,
                                 SoundGeneratorConstructorCalls(connectImmediately)
                                     \o subclassCalls)
                        THEN /\ pc' = "failed"
                             /\ gainCommands' = << >>
                             /\ routed' = {}
                        ELSE /\ pc' = IF subclassThrows THEN "failed" ELSE "live"
                             /\ gainCommands' =
                                    << SetValueAtTime(level, now) >>
                                    \o FullyEnabledListener(all.fullyEnabled, level, now)
                             /\ routed' = IF connectImmediately THEN {Destination} ELSE {}
    /\ UNCHANGED <<assertionsEnabled, now, phetAudioContext, standaloneVars>>

\* The SoundGenerator constructor under a subclass constructor that has no
\* throw statement of its own
SoundGeneratorConstructor(level, items, connectImmediately, subclassCalls) ==
    SoundGeneratorConstructorThen(level, items, connectImmediately, subclassCalls, FALSE)

\* new SoundGenerator( options )
Construct(level, items, connectImmediately) ==
    /\ SoundGeneratorConstructor(level, items, connectImmediately, << >>)
    /\ generator' = "SoundGenerator"
    /\ UNCHANGED <<popVars, noiseVars>>

(***************************************************************************)
(* A Property used as enable control takes a new value                     *)
(***************************************************************************)
PropertySet(s, v) ==
    LET vals == [sigValue EXCEPT ![s] = v]
        enabled == IF linked[s] > 0
                   THEN UpdateFullyEnabledState(enableControlProperties, vals)
                   ELSE fullyEnabled
    IN  /\ v # sigValue[s]
        /\ sigValue' = vals
        /\ fullyEnabled' = enabled
        /\ gainCommands' = SetFullyEnabled(gainCommands, pc = "live", fullyEnabled,
                                           enabled, outputLevel, now)
        /\ Len(gainCommands') <= MaxEvents
        /\ UNCHANGED <<phetAudioContext, standaloneVars, subclassVars>>
        /\ UNCHANGED <<assertionsEnabled, pc, options, enableControlProperties, linked,
                       removers, outputLevel, nodeCreated, connectionList, routed, now>>

\* an externally owned Property changes
SetSignal(s, v) ==
    /\ s \in ExternalSignals
    /\ PropertySet(s, v)

\* set locallyEnabled( locallyEnabled )
SetLocallyEnabled(v) ==
    /\ pc = "live"
    /\ PropertySet(LocalSignal, v)

(***************************************************************************)
(* addEnableControlProperty / removeEnableControlProperty / dispose        *)
(***************************************************************************)
AddEnableControlProperty(s) ==
    /\ pc = "live"
    /\ Len(enableControlProperties) < MaxMembers
    /\ LET cur == [members |-> enableControlProperties, linked |-> linked,
                   removers |-> removers, fullyEnabled |-> fullyEnabled,
                   threw |-> FALSE]
           st == ItemAdded(cur, s, sigValue, assertionsEnabled)
       IN  /\ enableControlProperties' = st.members
           /\ linked' = st.linked
           /\ removers' = st.removers
           /\ fullyEnabled' = st.fullyEnabled
           /\ gainCommands' = SetFullyEnabled(gainCommands, TRUE, fullyEnabled,
                                              st.fullyEnabled, outputLevel, now)
    /\ Len(gainCommands') <= MaxEvents
    /\ UNCHANGED <<phetAudioContext, standaloneVars, subclassVars>>
    /\ UNCHANGED <<assertionsEnabled, pc, options, sigValue, outputLevel, nodeCreated,
                   connectionList, routed, now>>

\* Variant: a removed Property stays linked
ItemRemoved_NoUnlink(counts, item) ==
    [linked |-> counts.linked,
     removers |-> [counts.removers EXCEPT ![item] = 0]]

\* The item-removed listeners run for one removed item: every checkAndRemove
\* closure registered for that item unlinks updateFullyEnabledState once and
\* deregisters itself
ItemRemoved(counts, item) ==
    [linked |-> [counts.linked EXCEPT ![item] = @ - counts.removers[item]],
     removers |-> [counts.removers EXCEPT ![item] = 0]]

\* Variant: the index of the item is not checked before the splice, so for an
\* item that is absent the last item is taken out
RemoveEnableControlProperty_UncheckedSplice(s) ==
    /\ pc = "live"
    /\ LET item == IF Count(enableControlProperties, s) > 0 \/ enableControlProperties = << >>
                   THEN s
                   ELSE enableControlProperties[Len(enableControlProperties)]
           after == ItemRemoved([linked |-> linked, removers |-> removers], item)
       IN  IF Count(enableControlProperties, item) > 0
           THEN /\ enableControlProperties' =
                      IF item = s
                      THEN RemoveFirst(enableControlProperties, s)
                      ELSE SubSeq(enableControlProperties, 1,
                                  Len(enableControlProperties) - 1)
                /\ linked' = after.linked
                /\ removers' = after.removers
           ELSE UNCHANGED <<enableControlProperties, linked, removers>>
    /\ UNCHANGED <<phetAudioContext, standaloneVars, subclassVars>>
    /\ UNCHANGED <<assertionsEnabled, pc, options, sigValue, fullyEnabled, outputLevel,
                   nodeCreated, gainCommands, connectionList, routed, now>>

\* removeEnableControlProperty( s ): ObservableArray.remove does nothing for an
\* item that the array does not hold
RemoveEnableControlProperty(s) ==
    /\ pc = "live"
    /\ IF Count(enableControlProperties, s) > 0
       THEN LET after == ItemRemoved([linked |-> linked, removers |-> removers], s)
            IN  /\ enableControlProperties' = RemoveFirst(enableControlProperties, s)
                /\ linked' = after.linked
                /\ removers' = after.removers
       ELSE UNCHANGED <<enableControlProperties, linked, removers>>
    /\ UNCHANGED <<phetAudioContext, standaloneVars, subclassVars>>
    /\ UNCHANGED <<assertionsEnabled, pc, options, sigValue, fullyEnabled, outputLevel,
                   nodeCreated, gainCommands, connectionList, routed, now>>

\* enableControlProperties.clear(): items are removed from the end, one by one
RECURSIVE ClearAll(_, _)
ClearAll(members, counts) ==
    IF members = << >> THEN counts
    ELSE ClearAll(SubSeq(members, 1, Len(members) - 1),
                  ItemRemoved(counts, members[Len(members)]))

\* Variant: disposal also drops every connection
Dispose_Disconnects ==
    /\ pc = "live"
    /\ LET after == ClearAll(enableControlProperties,
                             [linked |-> linked, removers |-> removers])
       IN  /\ enableControlProperties' = << >>
           /\ linked' = after.linked
           /\ removers' = after.removers
    /\ connectionList' = << >>
    /\ routed' = {}
    /\ UNCHANGED <<phetAudioContext, standaloneVars, subclassVars>>
    /\ UNCHANGED <<assertionsEnabled, pc, options, sigValue, fullyEnabled, outputLevel,
                   nodeCreated, gainCommands, now>>

\* dispose()
Dispose ==
    /\ pc = "live"
    /\ LET after == ClearAll(enableControlProperties,
                             [linked |-> linked, removers |-> removers])
       IN  /\ enableControlProperties' = << >>
           /\ linked' = after.linked
           /\ removers' = after.removers
    /\ UNCHANGED <<phetAudioContext, standaloneVars, subclassVars>>
    /\ UNCHANGED <<assertionsEnabled, pc, options, sigValue, fullyEnabled, outputLevel,
                   nodeCreated, gainCommands, connectionList, routed, now>>

(***************************************************************************)
(* connect / disconnect                                                    *)
(***************************************************************************)
\* Variant: the connection is made but not recorded
Connect_NotRecorded(sink) ==
    /\ pc = "live"
    /\ Len(connectionList) < MaxConnections
    /\ routed' = routed \cup {sink}
    /\ UNCHANGED <<phetAudioContext, standaloneVars, subclassVars>>
    /\ UNCHANGED <<assertionsEnabled, pc, options, sigValue, enableControlProperties,
                   linked, removers, fullyEnabled, outputLevel, nodeCreated,
                   gainCommands, connectionList, now>>

Connect(sink) ==
    /\ pc = "live"
    /\ Len(connectionList) < MaxConnections
    /\ routed' = routed \cup {sink}
    /\ connectionList' = Append(connectionList, sink)
    /\ UNCHANGED <<phetAudioContext, standaloneVars, subclassVars>>
    /\ UNCHANGED <<assertionsEnabled, pc, options, sigValue, enableControlProperties,
                   linked, removers, fullyEnabled, outputLevel, nodeCreated,
                   gainCommands, now>>

\* Variant: disconnecting one sink empties the whole connection list
Disconnect_ClearsList(sink) ==
    /\ pc = "live"
    /\ IF sink \in routed
       THEN /\ routed' = routed \ {sink}
            /\ connectionList' = << >>
       ELSE UNCHANGED <<routed, connectionList>>
    /\ UNCHANGED <<phetAudioContext, standaloneVars, subclassVars>>
    /\ UNCHANGED <<assertionsEnabled, pc, options, sigValue, enableControlProperties,
                   linked, removers, fullyEnabled, outputLevel, nodeCreated,
                   gainCommands, now>>

\* masterGainNode.disconnect( sink ) throws when there is no such connection,
\* and the connection list is then left as it was
Disconnect(sink) ==
    /\ pc = "live"
    /\ IF sink \in routed
       THEN /\ routed' = routed \ {sink}
            /\ connectionList' = Without(connectionList, sink)
       ELSE UNCHANGED <<routed, connectionList>>
    /\ UNCHANGED <<phetAudioContext, standaloneVars, subclassVars>>
    /\ UNCHANGED <<assertionsEnabled, pc, options, sigValue, enableControlProperties,
                   linked, removers, fullyEnabled, outputLevel, nodeCreated,
                   gainCommands, now>>

(***************************************************************************)
(* setOutputLevel                                                          *)
(***************************************************************************)
\* Variant: the level is stored only when it is applied at once
SetOutputLevel_StoredWhenImmediate(level, timeConstant) ==
    /\ pc = "live"
    /\ outputLevel' = IF EffectiveTimeConstant(timeConstant) = 0
                      THEN level ELSE outputLevel
    /\ gainCommands' = gainCommands
                         \o SetOutputLevelCommands(level, timeConstant, fullyEnabled, now)
    /\ Len(gainCommands') <= MaxEvents
    /\ UNCHANGED <<phetAudioContext, standaloneVars, subclassVars>>
    /\ UNCHANGED <<assertionsEnabled, pc, options, sigValue, enableControlProperties,
                   linked, removers, fullyEnabled, nodeCreated, connectionList, routed,
                   now>>

SetOutputLevel(level, timeConstant) ==
    /\ pc = "live"
    /\ outputLevel' = level
    /\ gainCommands' = gainCommands
                         \o SetOutputLevelCommands(level, timeConstant, fullyEnabled, now)
    /\ Len(gainCommands') <= MaxEvents
    /\ UNCHANGED <<phetAudioContext, standaloneVars, subclassVars>>
    /\ UNCHANGED <<assertionsEnabled, pc, options, sigValue, enableControlProperties,
                   linked, removers, fullyEnabled, nodeCreated, connectionList, routed,
                   now>>

(***************************************************************************)
(* Audio time passes                                                       *)
(***************************************************************************)
Tick ==
    /\ pc = "live"
    /\ now < MaxTime
    /\ now' = now + 1
    /\ UNCHANGED <<phetAudioContext, standaloneVars, subclassVars>>
    /\ UNCHANGED <<assertionsEnabled, pc, options, sigValue, enableControlProperties,
                   linked, removers, fullyEnabled, outputLevel, nodeCreated,
                   gainCommands, connectionList, routed>>

(***************************************************************************)
(* PitchedPopGenerator                                                     *)
(***************************************************************************)
\* relativePitch arguments, counted in halves: 0, 1 and the out-of-range 3/2
RelativePitches == {0, 2, 3}

\* assert( relativePitch >= 0 && relativePitch <= 1 ), when assertions are enabled
RelativePitchAsserted(asserts, relativePitch) ==
    asserts /\ ~(relativePitch >= 0 /\ relativePitch <= 2)

\* minFrequency + relativePitch * ( maxFrequency - minFrequency )
PopFrequency(relativePitch) ==
    PitchRangeMin + (relativePitch * (PitchRangeMax - PitchRangeMin)) \div 2

\* Variant: the oscillator is set to the frequency itself, without a sweep
Retuned_NoSweep(frequency) ==
    [startFrequency |-> frequency, endFrequency |-> frequency]

\* The frequency commands of one pop on the oscillator of a voice: set to
\* frequency / 2, then ramp to frequency * 2
Retuned(frequency) ==
    [startFrequency |-> frequency \div 2, endFrequency |-> frequency * 2]

\* Variant: the cursor stays on the same voice
NextSoundSourceIndex_Stuck(index, n) == index

\* Variant: the cursor runs past the end of the pool
NextSoundSourceIndex_NoWrap(index, n) == index + 1

\* ( this.nextSoundSourceIndex + 1 ) % this.soundSources.length
NextSoundSourceIndex(index, n) == (index + 1) % n

\* new PitchedPopGenerator( options )
ConstructPitchedPopGenerator(numPopGenerators, level, items) ==
    /\ SoundGeneratorConstructor(level, items, FALSE, PitchedPopGeneratorConstructorCalls)
    /\ generator' = "PitchedPopGenerator"
    /\ IF pc' = "live"
       THEN /\ soundSources' = [i \in 1..numPopGenerators |->
                                  [startFrequency |-> PitchRangeMin,
                                   endFrequency |-> PitchRangeMin]]
            /\ nextSoundSourceIndex' = 0
       ELSE UNCHANGED <<soundSources, nextSoundSourceIndex>>
    /\ UNCHANGED <<playPopCalls, retuneLog, popCalls, noiseVars>>

\* the duration argument of playPop, in ticks; Undefined when it is left out
PopDurations == {Undefined, 0, 2}

\* duration = duration || DEFAULT_POP_DURATION
EffectiveDuration(duration) ==
    IF duration = Undefined \/ duration = 0 THEN DEFAULT_POP_DURATION ELSE duration

\* One call on an AudioParam of a voice (0-based); cancelScheduledValues has
\* no value and the calls without a time constant carry Undefined
ParamCall(voice, param, method, value, time, timeConstant) ==
    [voice |-> voice, param |-> param, method |-> method, value |-> value,
     time |-> time, timeConstant |-> timeConstant]

\* Variant: the scheduled values are cancelled after the new ones are scheduled
PopCommands_CancelLast(voice, frequency, duration, t) ==
    << ParamCall(voice, "frequency", "setValueAtTime",
                 Retuned(frequency).startFrequency, t, Undefined),
       ParamCall(voice, "gain", "setValueAtTime", 0, t, Undefined),
       ParamCall(voice, "frequency", "linearRampToValueAtTime",
                 Retuned(frequency).endFrequency, t + duration, Undefined),
       ParamCall(voice, "gain", "setTargetAtTime", 1, t, ENVELOPE_TIME_CONSTANT),
       ParamCall(voice, "gain", "setTargetAtTime", 0, t + duration, ENVELOPE_TIME_CONSTANT),
       ParamCall(voice, "gain", "cancelScheduledValues", Undefined, t, Undefined) >>

\* "play the pop sound": the six calls on the gain and the oscillator
\* frequency of the selected voice, in the order they are made
PopCommands(voice, frequency, duration, t) ==
    << ParamCall(voice, "gain", "cancelScheduledValues", Undefined, t, Undefined),
       ParamCall(voice, "frequency", "setValueAtTime",
                 Retuned(frequency).startFrequency, t, Undefined),
       ParamCall(voice, "gain", "setValueAtTime", 0, t, Undefined),
       ParamCall(voice, "frequency", "linearRampToValueAtTime",
                 Retuned(frequency).endFrequency, t + duration, Undefined),
       ParamCall(voice, "gain", "setTargetAtTime", 1, t, ENVELOPE_TIME_CONSTANT),
       ParamCall(voice, "gain", "setTargetAtTime", 0, t + duration, ENVELOPE_TIME_CONSTANT) >>

\* Variant: an ignored request still takes the voice under the cursor
PlayPopWithDuration_IgnoredTakesVoice(relativePitch, duration) ==
    /\ pc = "live"
    /\ generator = "PitchedPopGenerator"
    /\ playPopCalls < MaxPops
    /\ playPopCalls' = playPopCalls + 1
    /\ IF \/ RelativePitchAsserted(assertionsEnabled, relativePitch)
          \/ Fails(phetAudioContext, PlayPopCalls)
       THEN UNCHANGED <<soundSources, nextSoundSourceIndex, retuneLog>> /\ popCalls' = << >>
       ELSE /\ nextSoundSourceIndex' =
                   NextSoundSourceIndex(nextSoundSourceIndex, Len(soundSources))
            /\ IF fullyEnabled
               THEN /\ soundSources' = [soundSources EXCEPT ![nextSoundSourceIndex + 1] =
                                              Retuned(PopFrequency(relativePitch))]
                    /\ retuneLog' = Append(retuneLog, nextSoundSourceIndex)
                    /\ popCalls' = PopCommands(nextSoundSourceIndex,
                                               PopFrequency(relativePitch),
                                               EffectiveDuration(duration), now)
               ELSE UNCHANGED <<soundSources, retuneLog>> /\ popCalls' = << >>
    /\ UNCHANGED <<baseVars, phetAudioContext, standaloneVars, generator, noiseVars>>

\* playPop( relativePitch, duration ): a call that throws or is ignored makes
\* no call on a voice and leaves the pool as it was
PlayPopWithDuration(relativePitch, duration) ==
    /\ pc = "live"
    /\ generator = "PitchedPopGenerator"
    /\ playPopCalls < MaxPops
    /\ playPopCalls' = playPopCalls + 1
    /\ IF \/ RelativePitchAsserted(assertionsEnabled, relativePitch)
          \/ ~fullyEnabled
          \/ Fails(phetAudioContext, PlayPopCalls)
       THEN UNCHANGED <<soundSources, nextSoundSourceIndex, retuneLog>> /\ popCalls' = << >>
       ELSE /\ soundSources' = [soundSources EXCEPT ![nextSoundSourceIndex + 1] =
                                      Retuned(PopFrequency(relativePitch))]
            /\ nextSoundSourceIndex' =
                   NextSoundSourceIndex(nextSoundSourceIndex, Len(soundSources))
            /\ retuneLog' = Append(retuneLog, nextSoundSourceIndex)
            /\ popCalls' = PopCommands(nextSoundSourceIndex, PopFrequency(relativePitch),
                                       EffectiveDuration(duration), now)
    /\ UNCHANGED <<baseVars, phetAudioContext, standaloneVars, generator, noiseVars>>

\* playPop( relativePitch ), the duration left out
PlayPop(relativePitch) == PlayPopWithDuration(relativePitch, Undefined)

(***************************************************************************)
(* SharedSoundClip                                                         *)
(***************************************************************************)
\* new SharedSoundClip( soundInfo, options ): this._soundClip = null
NewSharedSoundClip(c) ==
    /\ _soundClip[c] = NotLoaded
    /\ _soundClip' = [_soundClip EXCEPT ![c] = Null]
    /\ UNCHANGED <<proxiesConstructed, soundClipReads>>
    /\ UNCHANGED <<baseVars, phetAudioContext, subclassVars, screenVars>>

\* Variant: the getter makes a new proxy on every read
SoundClipGetterConstructs_Always(clip) == TRUE

\* if ( !this._soundClip )
SoundClipGetterConstructs(clip) == clip = Null

\* get soundClip(): the proxies are numbered in the order they are made
GetSoundClip(c) ==
    /\ _soundClip[c] # NotLoaded
    /\ Len(soundClipReads[c]) < MaxReads
    /\ IF SoundClipGetterConstructs(_soundClip[c])
       THEN /\ proxiesConstructed' = proxiesConstructed + 1
            /\ _soundClip' = [_soundClip EXCEPT ![c] = proxiesConstructed + 1]
       ELSE UNCHANGED <<proxiesConstructed, _soundClip>>
    /\ soundClipReads' = [soundClipReads EXCEPT ![c] = Append(@, _soundClip'[c])]
    /\ UNCHANGED <<baseVars, phetAudioContext, subclassVars, screenVars>>

(***************************************************************************)
(* ScreenSelectionSoundGenerator                                           *)
(***************************************************************************)
\* this.playAssociatedSound( soundType )
PlayAssociatedSound(played, soundType) == Append(played, soundType)

\* Variant: the icon sound is played on whatever screen is current
IconIndexListener_AnyScreen(played, currentScreen) ==
    PlayAssociatedSound(played, "ICON_SELECTED")

\* the listener of iconIndexProperty
IconIndexListener(played, currentScreen) ==
    IF currentScreen = Null
    THEN PlayAssociatedSound(played, "ICON_SELECTED")
    ELSE played

\* Variant: every change of screen plays the home-screen sound
CurrentScreenListener_HomeSound(played, currentScreen) ==
    PlayAssociatedSound(played, "HOME_SCREEN")

\* the listener of currentScreenProperty
CurrentScreenListener(played, currentScreen) ==
    PlayAssociatedSound(played, IF currentScreen = Null
                                THEN "HOME_SCREEN" ELSE "OTHER_SCREEN")

\* new ScreenSelectionSoundGenerator( currentScreenProperty, iconIndexProperty ):
\* lazyLink does not call the listener
NewScreenSelectionSoundGenerator ==
    /\ screenSelection = "none"
    /\ screenSelection' = "live"
    /\ UNCHANGED <<currentScreenProperty, iconIndexProperty, playedSounds>>
    /\ UNCHANGED <<baseVars, phetAudioContext, subclassVars, clipVars>>

\* currentScreenProperty.value = screen: the listeners of a Property run when
\* its value changes
SetCurrentScreen(screen) ==
    /\ Len(playedSounds) < MaxPlays
    /\ currentScreenProperty' = screen
    /\ playedSounds' = IF screen # currentScreenProperty /\ screenSelection = "live"
                       THEN CurrentScreenListener(playedSounds, screen)
                       ELSE playedSounds
    /\ UNCHANGED <<iconIndexProperty, screenSelection>>
    /\ UNCHANGED <<baseVars, phetAudioContext, subclassVars, clipVars>>

\* iconIndexProperty.value = index
SetIconIndex(index) ==
    /\ Len(playedSounds) < MaxPlays
    /\ iconIndexProperty' = index
    /\ playedSounds' = IF index # iconIndexProperty /\ screenSelection = "live"
                       THEN IconIndexListener(playedSounds, currentScreenProperty)
                       ELSE playedSounds
    /\ UNCHANGED <<currentScreenProperty, screenSelection>>
    /\ UNCHANGED <<baseVars, phetAudioContext, subclassVars, clipVars>>

(***************************************************************************)
(* NoiseGenerator                                                          *)
(***************************************************************************)
LfoFrequencies == {1, 2, 3}

\* values given for options.noiseType; 'violet' is not a noise type
NoiseTypes == {"white", "pink", "brown", "violet"}

\* Variant: an unknown noise type falls through with an unfilled buffer
NoiseTypeThrows_FallsThrough(type) == FALSE

\* the else branch of the noise type dispatch: throw new Error( ... )
NoiseTypeThrows(type) == ~(type = "white" \/ type = "pink" \/ type = "brown")

\* new NoiseGenerator( options ), without filters
ConstructNoiseGeneratorOfType(type, lfoInitiallyEnabled, level, items) ==
    /\ SoundGeneratorConstructorThen(level, items, FALSE,
                                     NoiseGeneratorConstructorCalls(lfoInitiallyEnabled),
                                     NoiseTypeThrows(type))
    /\ generator' = "NoiseGenerator"
    /\ noiseType' = type
    /\ isPlaying' = FALSE
    /\ noiseSource' = 0
    /\ lfoFrequency' = LfoInitialFrequency
    /\ UNCHANGED <<bufferSourcesCreated, stoppedSources, popVars>>

\* new NoiseGenerator( options ) with the default noiseType
ConstructNoiseGenerator(lfoInitiallyEnabled, level, items) ==
    ConstructNoiseGeneratorOfType("white", lfoInitiallyEnabled, level, items)

\* Variant: start() makes a new buffer source whether playing or not
Start_Always ==
    /\ pc = "live"
    /\ generator = "NoiseGenerator"
    /\ bufferSourcesCreated < MaxSources
    /\ bufferSourcesCreated' = bufferSourcesCreated + 1
    /\ noiseSource' = bufferSourcesCreated + 1
    /\ isPlaying' = TRUE
    /\ UNCHANGED <<baseVars, phetAudioContext, standaloneVars, generator, popVars, lfoFrequency,
                   noiseType, stoppedSources>>

\* start(): the buffer sources are numbered in the order they are created
Start ==
    /\ pc = "live"
    /\ generator = "NoiseGenerator"
    /\ IF ~isPlaying /\ ~Fails(phetAudioContext, StartCalls)
       THEN /\ bufferSourcesCreated < MaxSources
            /\ bufferSourcesCreated' = bufferSourcesCreated + 1
            /\ noiseSource' = bufferSourcesCreated + 1
            /\ isPlaying' = TRUE
       ELSE UNCHANGED <<bufferSourcesCreated, noiseSource, isPlaying>>
    /\ UNCHANGED <<baseVars, phetAudioContext, standaloneVars, generator, popVars, lfoFrequency,
                   noiseType, stoppedSources>>

\* Variant: stop() forgets to drop the reference to the stopped source
Stop_KeepsSource ==
    /\ pc = "live"
    /\ generator = "NoiseGenerator"
    /\ IF isPlaying /\ ~Fails(phetAudioContext, StopCalls)
       THEN /\ stoppedSources' = Append(stoppedSources, noiseSource)
            /\ noiseSource' = noiseSource
            /\ isPlaying' = FALSE
       ELSE UNCHANGED <<noiseSource, isPlaying, stoppedSources>>
    /\ UNCHANGED <<baseVars, phetAudioContext, standaloneVars, generator, popVars, lfoFrequency,
                   bufferSourcesCreated, noiseType>>

\* stop()
Stop ==
    /\ pc = "live"
    /\ generator = "NoiseGenerator"
    /\ IF isPlaying /\ ~Fails(phetAudioContext, StopCalls)
       THEN /\ stoppedSources' = Append(stoppedSources, noiseSource)
            /\ noiseSource' = 0
            /\ isPlaying' = FALSE
       ELSE UNCHANGED <<noiseSource, isPlaying, stoppedSources>>
    /\ UNCHANGED <<baseVars, phetAudioContext, standaloneVars, generator, popVars, lfoFrequency,
                   bufferSourcesCreated, noiseType>>

\* setLfoFrequency( frequency )
SetLfoFrequency(frequency) ==
    /\ pc = "live"
    /\ generator = "NoiseGenerator"
    /\ lfoFrequency' = IF Fails(phetAudioContext, SetLfoFrequencyCalls)
                       THEN lfoFrequency ELSE frequency
    /\ UNCHANGED <<baseVars, phetAudioContext, standaloneVars, generator, popVars, isPlaying,
                   noiseSource, bufferSourcesCreated, noiseType, stoppedSources>>

(***************************************************************************)
(* Specifications                                                          *)
(***************************************************************************)
\* Every operation with every input.  This composition is the reference; its
\* state space is the product of the concerns explored one by one below.
Next ==
    \/ \E level \in Levels, items \in SeqsUpTo(ExternalSignals, MaxInitialSignals),
          ci \in BOOLEAN : Construct(level, items, ci)
    \/ \E s \in ExternalSignals, v \in BOOLEAN : SetSignal(s, v)
    \/ \E v \in BOOLEAN : SetLocallyEnabled(v)
    \/ \E s \in AllSignals : AddEnableControlProperty(s)
    \/ \E s \in AllSignals : RemoveEnableControlProperty(s)
    \/ Dispose
    \/ \E sink \in Sinks : Connect(sink)
    \/ \E sink \in Sinks : Disconnect(sink)
    \/ \E level \in Levels, tc \in TimeConstants : SetOutputLevel(level, tc)
    \/ Tick
    \/ \E n \in 1..MaxVoices, level \in Levels,
          items \in SeqsUpTo(ExternalSignals, MaxInitialSignals) :
            ConstructPitchedPopGenerator(n, level, items)
    \/ \E relativePitch \in RelativePitches, duration \in PopDurations :
            PlayPopWithDuration(relativePitch, duration)
    \/ \E type \in NoiseTypes, lfo \in BOOLEAN, level \in Levels,
          items \in SeqsUpTo(ExternalSignals, MaxInitialSignals) :
            ConstructNoiseGeneratorOfType(type, lfo, level, items)
    \/ Start
    \/ Stop
    \/ \E frequency \in LfoFrequencies : SetLfoFrequency(frequency)
    \/ \E c \in SharedSoundClips : NewSharedSoundClip(c)
    \/ \E c \in SharedSoundClips : GetSoundClip(c)
    \/ NewScreenSelectionSoundGenerator
    \/ \E screen \in Screens : SetCurrentScreen(screen)
    \/ \E index \in IconIndexes : SetIconIndex(index)

Spec == Init /\ [][Next]_vars

(***************************************************************************)
(* Specifications of one concern each.  The enable-control aggregation,    *)
(* the gain envelope and the connection list do not read each other's      *)
(* state beyond fullyEnabled and outputLevel, so each is explored with the *)
(* operations that drive it.                                               *)
(***************************************************************************)
\* Properties that a specification leaves outside the generator keep one value
OthersFixed(used) == \A s \in ExternalSignals \ used : sigValue[s] = TRUE

\* every construction input
NextConstruct ==
    \/ \E level \in Levels, items \in SeqsUpTo(ExternalSignals, MaxInitialSignals),
          ci \in BOOLEAN : Construct(level, items, ci)
    \/ \E s \in ExternalSignals, v \in BOOLEAN : SetSignal(s, v)
    \/ \E v \in BOOLEAN : SetLocallyEnabled(v)

SpecConstruct == Init /\ [][NextConstruct]_vars

\* enable-control Properties are supplied, added and flipped, never removed
NextFlips ==
    \/ \E items \in SeqsUpTo(ExternalSignals, MaxInitialSignals) : Construct(1, items, FALSE)
    \/ \E s \in ExternalSignals, v \in BOOLEAN : SetSignal(s, v)
    \/ \E v \in BOOLEAN : SetLocallyEnabled(v)
    \/ \E s \in AllSignals : AddEnableControlProperty(s)

SpecFlips == Init /\ [][NextFlips]_vars

\* ... and removed, and the generator disposed
EnableSignals == BooleanSignals \cup {LocalSignal}

NextEnable ==
    \/ \E items \in SeqsUpTo(BooleanSignals, MaxInitialSignals) : Construct(1, items, FALSE)
    \/ \E s \in BooleanSignals, v \in BOOLEAN : SetSignal(s, v)
    \/ \E v \in BOOLEAN : SetLocallyEnabled(v)
    \/ \E s \in EnableSignals : AddEnableControlProperty(s)
    \/ \E s \in EnableSignals : RemoveEnableControlProperty(s)
    \/ Dispose

InitEnable == Init /\ OthersFixed(BooleanSignals)

SpecEnable == InitEnable /\ [][NextEnable]_vars

\* a generator without external enable-control Properties
NextLocal ==
    \/ \E ci \in BOOLEAN : Construct(1, << >>, ci)
    \/ \E v \in BOOLEAN : SetLocallyEnabled(v)
    \/ \E level \in {0, 2}, tc \in {Undefined, 0} : SetOutputLevel(level, tc)
    \/ \E sink \in Sinks : Connect(sink)
    \/ \E sink \in Sinks : Disconnect(sink)

InitAlone == Init /\ OthersFixed({})

SpecLocal == InitAlone /\ [][NextLocal]_vars

\* the gain envelope: enable flips and output level changes as time passes
GainLevels == {0, 1, 2}

NextGain ==
    \/ \E level \in {1, 2} : Construct(level, << >>, FALSE)
    \/ \E v \in BOOLEAN : SetLocallyEnabled(v)
    \/ \E level \in GainLevels, tc \in TimeConstants : SetOutputLevel(level, tc)
    \/ Tick

SpecGain == InitAlone /\ [][NextGain]_vars

\* the output level: set with every time constant, enabled and disabled,
\* connected and disconnected, before and after disposal
NextLevel ==
    \/ \E level \in {0, 1}, ci \in BOOLEAN : Construct(level, << >>, ci)
    \/ \E v \in BOOLEAN : SetLocallyEnabled(v)
    \/ \E level \in {-1, 2}, tc \in TimeConstants : SetOutputLevel(level, tc)
    \/ Connect("a")
    \/ \E sink \in Sinks : Disconnect(sink)
    \/ Dispose

SpecLevel == InitAlone /\ [][NextLevel]_vars

\* the pool of voices of a PitchedPopGenerator
NextPop ==
    \/ \E n \in 1..MaxVoices : ConstructPitchedPopGenerator(n, 1, << >>)
    \/ \E v \in BOOLEAN : SetLocallyEnabled(v)
    \/ \E relativePitch \in RelativePitches : PlayPop(relativePitch)

SpecPop == InitAlone /\ [][NextPop]_vars

\* the commands of a pop: pops of every duration as time passes
NextPopCommands ==
    \/ \E n \in 1..MaxVoices : ConstructPitchedPopGenerator(n, 1, << >>)
    \/ \E v \in BOOLEAN : SetLocallyEnabled(v)
    \/ \E relativePitch \in {2, 3}, duration \in PopDurations :
            PlayPopWithDuration(relativePitch, duration)
    \/ Tick

SpecPopCommands == InitAlone /\ [][NextPopCommands]_vars

\* a NoiseGenerator is started and stopped
NextNoise ==
    \/ \E type \in NoiseTypes, lfo \in BOOLEAN :
            ConstructNoiseGeneratorOfType(type, lfo, 1, << >>)
    \/ \E v \in BOOLEAN : SetLocallyEnabled(v)
    \/ Start
    \/ Stop
    \/ \E frequency \in LfoFrequencies : SetLfoFrequency(frequency)
    \/ Dispose

SpecNoise == InitAlone /\ [][NextNoise]_vars

\* the three classes on either audio context, with valid constructor arguments
NextBackend ==
    \/ \E items \in {<< >>, << "s1" >>}, ci \in BOOLEAN : Construct(1, items, ci)
    \/ \E n \in 1..MaxVoices, items \in {<< >>, << "s1" >>} :
            ConstructPitchedPopGenerator(n, 1, items)
    \/ \E lfo \in BOOLEAN, items \in {<< >>, << "s1" >>} :
            ConstructNoiseGenerator(lfo, 1, items)
    \/ \E v \in BOOLEAN : SetSignal("s1", v)
    \/ \E tc \in {Undefined, 0} : SetOutputLevel(2, tc)
    \/ Connect("a")
    \/ Disconnect("a")
    \/ PlayPop(2)
    \/ Start
    \/ Stop
    \/ \E frequency \in LfoFrequencies : SetLfoFrequency(frequency)

InitBackend == Init /\ OthersFixed({"s1"})

SpecBackend == InitBackend /\ [][NextBackend]_vars

\* the shared sound players are loaded and their clips read
NextShared ==
    \/ \E c \in SharedSoundClips : NewSharedSoundClip(c)
    \/ \E c \in SharedSoundClips : GetSoundClip(c)

SpecShared == InitAlone /\ [][NextShared]_vars

\* the user moves between the screens and the icons of the home screen
NextScreen ==
    \/ NewScreenSelectionSoundGenerator
    \/ \E screen \in Screens : SetCurrentScreen(screen)
    \/ \E index \in IconIndexes : SetIconIndex(index)

SpecScreen == InitAlone /\ [][NextScreen]_vars

\* the connection list
NextConnect ==
    \/ \E level \in Levels, ci \in BOOLEAN : Construct(level, << >>, ci)
    \/ \E sink \in Sinks : Connect(sink)
    \/ \E sink \in Sinks : Disconnect(sink)
    \/ \E v \in BOOLEAN : SetLocallyEnabled(v)
    \/ Dispose

SpecConnect == Init /\ [][NextConnect]_vars

(***************************************************************************)
(* Properties                                                              *)
(***************************************************************************)
\* The logical AND of the current values of the current member Properties
AllMembersTrue(members, vals) ==
    {i \in 1..Len(members) : ~vals[members[i]]} = {}

LastCommand == gainCommands[Len(gainCommands)]

\* C1: For every sequence of flips of the enable-control Properties of a
\* constructed generator (the local one, the supplied ones and those added
\* later), fullyEnabled equals the AND of the current values of all current
\* members in every state, the state right after each flip included.
C1_FullyEnabledIsAndOfMembers ==
    pc = "live" => (fullyEnabled = AllMembersTrue(enableControlProperties, sigValue))

\* C1 witness: a later-added Property is a member, two enable transitions have
\* happened since construction and the generator is disabled by one false member
C1_Witness ==
    /\ pc = "live"
    /\ Len(enableControlProperties) > Len(options.enableControlProperties) + 1
    /\ Len(gainCommands) = 7
    /\ ~fullyEnabled
    /\ Cardinality({s \in AllSignals : ~sigValue[s] /\ Count(enableControlProperties, s) > 0}) = 1

\* C2: A generator constructed without external enable-control Properties, to
\* which none is added, has fullyEnabled = locallyEnabled in every state reached
\* by locallyEnabled writes, setOutputLevel, connect and disconnect.
C2_FullyEnabledIsLocallyEnabled ==
    pc = "live" => (fullyEnabled = sigValue[LocalSignal])

\* C2 witness: locally disabled after an output level change and a connect
C2_Witness ==
    /\ pc = "live"
    /\ enableControlProperties = << LocalSignal >>
    /\ ~sigValue[LocalSignal]
    /\ ~fullyEnabled
    /\ outputLevel = 2
    /\ connectionList # << >>

\* C3 (as claimed): once every scheduled gain event has elapsed, the master gain
\* is outputLevel when the generator is fully enabled and 0 when it is not,
\* whatever enable flips and setOutputLevel calls came before and whenever.
C3_SteadyStateGainFollowsOutputLevel ==
    pc = "live" =>
        (SteadyStateGain(gainCommands) = IF fullyEnabled THEN outputLevel ELSE 0)

\* C4 (as claimed): right after removeEnableControlProperty of a current member,
\* fullyEnabled equals the AND of the remaining members' values.
C4_RemoveRecomputesFullyEnabled ==
    [][\A s \in AllSignals :
          (Count(enableControlProperties, s) > 0 /\ RemoveEnableControlProperty(s))
              => (fullyEnabled' = AllMembersTrue(enableControlProperties', sigValue'))]_vars

\* C5: When a disabled generator becomes fully enabled again, the enable ramp
\* ends at the output level set most recently (the value of outputLevel at that
\* moment), after a pin at 0, and lasts the fixed ramp time.
C5_EnableRampTargetsOutputLevel ==
    [][(~fullyEnabled /\ fullyEnabled')
          => /\ Len(gainCommands') = Len(gainCommands) + 2
             /\ gainCommands'[Len(gainCommands')] =
                    [type |-> "linearRamp", value |-> outputLevel,
                     time |-> now + DEFAULT_LINEAR_GAIN_CHANGE_TIME, timeConstant |-> 0]
             /\ outputLevel' = outputLevel]_vars

\* C5 witness: constructed at level 1, disabled at level 1, set to 2 while
\* disabled, enabled again: the last ramp goes to 2
C5_Witness ==
    /\ pc = "live"
    /\ fullyEnabled
    /\ options.initialOutputLevel = 1
    /\ Len(gainCommands) = 7
    /\ gainCommands[4] = SetValueAtTime(1, gainCommands[4].time)
    /\ gainCommands[5].type = "linearRamp" /\ gainCommands[5].value = 0
    /\ gainCommands[6] = SetValueAtTime(0, gainCommands[6].time)
    /\ gainCommands[7].type = "linearRamp" /\ gainCommands[7].value = 2
    /\ outputLevel = 2

\* The disable ramp scheduled last has run to its end
RampFinished ==
    \A i \in 1..Len(gainCommands) :
        gainCommands[i].type = "linearRamp" => gainCommands[i].time <= now

\* C6 (as claimed): for every level L, setOutputLevel(L, 0) while the generator
\* is not fully enabled leaves the instantaneous gain as it was, whether the
\* disable ramp has finished or not, and getOutputLevel() then returns L.
C6_SilentSetNeverChangesGain ==
    [][\A level \in GainLevels :
          (~fullyEnabled /\ SetOutputLevel(level, 0))
              => /\ GainAt(gainCommands', now) = GainAt(gainCommands, now)
                 /\ outputLevel' = level]_vars

\* C6 (amended): setOutputLevel(L, 0) while the generator is not fully enabled
\* makes getOutputLevel() return L; for L # 0 it issues no gain command; for
\* L = 0 it issues one set-value of 0 at the current time, after which the
\* gain is 0; the instantaneous gain is unchanged whenever L # 0 or the disable
\* ramp has finished.
C6_SilentSetChangesGainOnlyToZero ==
    [][\A level \in GainLevels :
          (~fullyEnabled /\ SetOutputLevel(level, 0))
              => /\ outputLevel' = level
                 /\ level # 0 => gainCommands' = gainCommands
                 /\ level = 0 => /\ gainCommands' =
                                       Append(gainCommands, SetValueAtTime(0, now))
                                 /\ GainAt(gainCommands', now) = <<0, 1>>
                 /\ (level # 0 \/ RampFinished)
                        => GainAt(gainCommands', now) = GainAt(gainCommands, now)]_vars

\* C6 witness: disabled, and setOutputLevel(0, 0) was called while the disable
\* ramp from level 2 was half way
C6_Witness ==
    /\ pc = "live"
    /\ ~fullyEnabled
    /\ outputLevel = 0
    /\ Len(gainCommands) = 6
    /\ gainCommands[4] = SetValueAtTime(2, 0)
    /\ gainCommands[5] = LinearRampToValueAtTime(0, DEFAULT_LINEAR_GAIN_CHANGE_TIME)
    /\ gainCommands[6] = SetValueAtTime(0, 1)

\* C7: Whatever connect and disconnect calls came before, isConnectedTo(s) is
\* true right after connect(s) and false right after disconnect(s).
C7_ConnectThenDisconnect ==
    [][\A sink \in Sinks :
          /\ Connect(sink) => IsConnectedTo(connectionList', sink)
          /\ Disconnect(sink) => ~IsConnectedTo(connectionList', sink)]_vars

\* C7 witness: the destination connected at construction has been disconnected
\* and another sink is connected
C7_Witness ==
    /\ pc = "live"
    /\ options.connectImmediately
    /\ Destination \notin routed
    /\ connectionList = << "a" >>

\* C8 (as claimed): each disconnect(s) removes exactly one of the entries for s.
C8_DisconnectRemovesOneEntry ==
    [][\A sink \in Sinks :
          (Disconnect(sink) /\ Count(connectionList, sink) > 0)
              => Count(connectionList', sink) = Count(connectionList, sink) - 1]_vars

\* C8 (amended): connect(s) called n times adds n entries for s, and one
\* disconnect(s) removes every entry for s and none for another sink.
C8_DisconnectRemovesEveryEntry ==
    [][\A sink \in Sinks :
          /\ Connect(sink)
                => Count(connectionList', sink) = Count(connectionList, sink) + 1
          /\ Disconnect(sink)
                => /\ Count(connectionList', sink) = 0
                   /\ \A other \in Sinks \ {sink} :
                          Count(connectionList', other) = Count(connectionList, other)]_vars

\* C8 witness: one sink is listed twice, and a disconnect has happened
C8_Witness ==
    /\ pc = "live"
    /\ options.connectImmediately
    /\ Destination \notin routed
    /\ Count(connectionList, "a") = 2

\* Nothing of the generator exists: no audio node, no subscription to any
\* Property, no gain command
NothingBuilt ==
    /\ ~nodeCreated
    /\ \A s \in AllSignals : linked[s] = 0 /\ removers[s] = 0
    /\ enableControlProperties = << >>
    /\ gainCommands = << >>
    /\ routed = {}

\* C9 (as claimed): construction with initialOutputLevel < 0 fails before any
\* audio node is created, any Property is subscribed to, any gain command issued.
C9_NegativeLevelFails ==
    (pc # "new" /\ options.initialOutputLevel < 0) => (pc = "failed" /\ NothingBuilt)

\* C9 (amended): the same, in a build in which assertions are enabled.
C9_NegativeLevelFailsWhenAsserting ==
    (assertionsEnabled /\ pc # "new" /\ options.initialOutputLevel < 0)
        => (pc = "failed" /\ NothingBuilt)

\* C9 witness: a construction with level -1 and supplied Properties has failed
C9_Witness ==
    /\ assertionsEnabled
    /\ pc = "failed"
    /\ options.initialOutputLevel = -1
    /\ options.enableControlProperties = << "s1", "s2" >>
    /\ options.connectImmediately

HasNonBoolean(items) == {i \in 1..Len(items) : items[i] \in NumberSignals} # {}

\* C10 (as claimed): construction with a non-boolean Property among
\* enableControlProperties fails before any supplied Property is subscribed to.
C10_NonBooleanFails ==
    (pc # "new" /\ HasNonBoolean(options.enableControlProperties))
        => (pc = "failed" /\ \A s \in AllSignals : linked[s] = 0)

\* C10 (amended): the same, in a build in which assertions are enabled.
C10_NonBooleanFailsWhenAsserting ==
    (assertionsEnabled /\ pc # "new" /\ HasNonBoolean(options.enableControlProperties))
        => (pc = "failed" /\ \A s \in AllSignals : linked[s] = 0)

\* C10 witness: the non-boolean Property came second, after a boolean one, and
\* the level was valid
C10_Witness ==
    /\ assertionsEnabled
    /\ pc = "failed"
    /\ options.initialOutputLevel = 1
    /\ options.enableControlProperties = << "s1", "n1" >>

NoSubscription == \A s \in AllSignals : linked[s] = 0 /\ removers[s] = 0

\* C11: dispose() leaves no member Property subscribed, and while the set of
\* enable-control Properties is empty (as it is after dispose) a flip of any
\* Property, whether supplied at construction, added later or the local one,
\* neither changes fullyEnabled nor issues a gain command.
C11_DisposeUnsubscribesEveryMember ==
    [][/\ Dispose => (enableControlProperties' = << >> /\ NoSubscription')
       /\ \A s \in AllSignals, v \in BOOLEAN :
             (pc = "live" /\ enableControlProperties = << >> /\ PropertySet(s, v))
                 => (fullyEnabled' = fullyEnabled /\ gainCommands' = gainCommands)]_vars

\* C11 witness: a generator built with two supplied Properties is empty again;
\* a supplied Property and the local one were flipped to false afterwards, yet
\* the generator is still fully enabled and no gain command followed those of
\* the constructor
C11_Witness ==
    /\ pc = "live"
    /\ options.enableControlProperties = << "s1", "s2" >>
    /\ enableControlProperties = << >>
    /\ NoSubscription
    /\ ~sigValue["s1"]
    /\ ~sigValue[LocalSignal]
    /\ fullyEnabled
    /\ Len(gainCommands) = 3

\* C12 (as claimed): whenever the set of enable-control Properties of a
\* constructed generator is empty, fullyEnabled is true.
C12_EmptySetIsFullyEnabled ==
    (pc = "live" /\ enableControlProperties = << >>) => fullyEnabled

\* C16: getOutputLevel() returns the level passed to the most recent
\* setOutputLevel call, whatever the enabled state and the time constant, and
\* the initial output level before the first call; enable and disable
\* transitions, connect, disconnect and dispose leave it as it is.
C16_OutputLevelIsLastSet ==
    [][/\ \A level \in Levels, tc \in TimeConstants :
             SetOutputLevel(level, tc) => outputLevel' = level
       /\ (pc = "new" /\ pc' = "live") => outputLevel' = options'.initialOutputLevel
       /\ (pc = "live" /\ ~(\E level \in Levels, tc \in TimeConstants :
                                SetOutputLevel(level, tc)))
             => outputLevel' = outputLevel]_vars

\* C16 witness: a disposed, disabled generator that was connected and
\* disconnected holds the level -1 set while it was disabled
C16_Witness ==
    /\ pc = "live"
    /\ options.initialOutputLevel = 0
    /\ options.connectImmediately
    /\ outputLevel = -1
    /\ ~fullyEnabled
    /\ enableControlProperties = << >>
    /\ routed = {}
    /\ Len(gainCommands) = 5

\* C17 (as claimed): an enable or disable transition leaves the instantaneous
\* gain as it was at the moment of the transition, because the pin is at the
\* gain's actual value; in particular when the previous ramp is still running.
C17_TransitionKeepsInstantaneousGain ==
    [][(pc = "live" /\ fullyEnabled' # fullyEnabled)
          => GainAt(gainCommands', now) = GainAt(gainCommands, now)]_vars

\* C18: each change of fullyEnabled issues exactly two gain commands: a
\* set-value at the current time (0 when becoming enabled, outputLevel when
\* becoming disabled), then a linear ramp to the opposite value (outputLevel
\* when becoming enabled, 0 when becoming disabled) that ends the fixed ramp
\* duration after the current time, in both directions.
C18_TransitionIssuesPinThenRamp ==
    [][(pc = "live" /\ fullyEnabled' # fullyEnabled)
          => gainCommands' = gainCommands \o
                << SetValueAtTime(IF fullyEnabled' THEN 0 ELSE outputLevel, now),
                   LinearRampToValueAtTime(IF fullyEnabled' THEN outputLevel ELSE 0,
                                           now + DEFAULT_LINEAR_GAIN_CHANGE_TIME) >>]_vars

\* C18 witness: disabled at time 1 with output level 2: pin at 2, ramp to 0
\* ending at time 1 + the ramp duration
C18_Witness ==
    /\ pc = "live"
    /\ ~fullyEnabled
    /\ outputLevel = 2
    /\ Len(gainCommands) >= 5
    /\ gainCommands[Len(gainCommands) - 1] = SetValueAtTime(2, 1)
    /\ LastCommand = LinearRampToValueAtTime(0, 1 + DEFAULT_LINEAR_GAIN_CHANGE_TIME)

\* C19 (as claimed): a flip, add or remove that changes fullyEnabled schedules
\* exactly one pin-and-ramp pair within the operation, and one that leaves the
\* AND of the members unchanged schedules no gain command.
C19_OneNotificationPerChangeOfTheAnd ==
    [][pc = "live"
          => /\ fullyEnabled' # fullyEnabled
                   => gainCommands' = gainCommands
                                        \o FullyEnabledListener(fullyEnabled', outputLevel, now)
             /\ (AllMembersTrue(enableControlProperties', sigValue')
                     = AllMembersTrue(enableControlProperties, sigValue))
                   => gainCommands' = gainCommands]_vars

\* C20: when addEnableControlProperty(signal) returns, the signal is a
\* subscribed member and fullyEnabled is the AND over all members, the new one
\* included; adding a Property that reads false to a fully enabled generator
\* disables it and schedules the pin and the ramp to 0 within the call.  (With
\* assertions enabled, adding a Property that is already linked throws.)
C20_AddTakesEffectImmediately ==
    [][\A s \in AllSignals :
          (AddEnableControlProperty(s) /\ ~(assertionsEnabled /\ linked[s] > 0))
              => /\ enableControlProperties' = Append(enableControlProperties, s)
                 /\ linked'[s] > 0
                 /\ fullyEnabled' = AllMembersTrue(enableControlProperties', sigValue')
                 /\ (fullyEnabled /\ ~sigValue[s])
                       => /\ ~fullyEnabled'
                          /\ gainCommands' = gainCommands \o
                                << SetValueAtTime(outputLevel, now),
                                   LinearRampToValueAtTime(
                                       0, now + DEFAULT_LINEAR_GAIN_CHANGE_TIME) >>]_vars

\* C20 witness: a Property reading false was added after construction to a
\* generator that was fully enabled, and the generator is now disabled with the
\* ramp to 0 as its last gain command
C20_Witness ==
    /\ pc = "live"
    /\ options.enableControlProperties = << "s1" >>
    /\ enableControlProperties = << "s1", LocalSignal, "s2" >>
    /\ sigValue["s1"] /\ sigValue[LocalSignal] /\ ~sigValue["s2"]
    /\ linked["s2"] = 1
    /\ ~fullyEnabled
    /\ Len(gainCommands) = 5
    /\ LastCommand = LinearRampToValueAtTime(0, DEFAULT_LINEAR_GAIN_CHANGE_TIME)

\* C13 (as claimed): the k-th call of playPop, counting every call made since
\* construction from 0, retunes voice k mod N of the N pooled voices.
C13_EveryCallTakesTheNextVoice ==
    [][\A relativePitch \in RelativePitches :
          PlayPop(relativePitch)
              => LET voice == playPopCalls % Len(soundSources)
                 IN  /\ retuneLog' = Append(retuneLog, voice)
                     /\ soundSources'[voice + 1] = Retuned(PopFrequency(relativePitch))]_vars

\* C13 (amended): a playPop call made while the generator is not fully enabled
\* is ignored, and with assertions enabled a call with a relative pitch outside
\* [0, 1] throws; neither retunes a voice nor moves the cursor.  Of the other
\* calls, the k-th (from 0) retunes voice k mod N and no other voice.
C13_CarriedOutCallsTakeVoicesInTurn ==
    [][/\ \A relativePitch \in RelativePitches :
             PlayPop(relativePitch)
                 => IF fullyEnabled /\ ~RelativePitchAsserted(assertionsEnabled, relativePitch)
                    THEN LET voice == Len(retuneLog) % Len(soundSources)
                         IN  /\ retuneLog' = Append(retuneLog, voice)
                             /\ soundSources' = [soundSources EXCEPT ![voice + 1] =
                                                    Retuned(PopFrequency(relativePitch))]
                    ELSE UNCHANGED <<retuneLog, soundSources, nextSoundSourceIndex>>
       /\ ~(\E relativePitch \in RelativePitches : PlayPop(relativePitch))
             => retuneLog' = retuneLog]_vars

\* C13 witness: three voices, five calls of which one was not carried out; the
\* fourth carried-out call took the first voice again
C13_Witness ==
    /\ pc = "live"
    /\ generator = "PitchedPopGenerator"
    /\ Len(soundSources) = 3
    /\ playPopCalls = 5
    /\ retuneLog = << 0, 1, 2, 0 >>
    /\ nextSoundSourceIndex = 1

\* C14: start() while playing changes nothing (no buffer source is created),
\* stop() while stopped changes nothing, isPlaying is true after every start()
\* and false after every stop(), and no other operation changes it.
C14_StartStopIdempotent ==
    [][/\ Start => (isPlaying' /\ (isPlaying => UNCHANGED noiseVars))
       /\ Stop => (~isPlaying' /\ (~isPlaying => UNCHANGED noiseVars))
       /\ (pc = "live" /\ ~Start /\ ~Stop) => isPlaying' = isPlaying]_vars

\* C14 witness: started, stopped and started again: the second buffer source
\* is playing
C14_Witness ==
    /\ pc = "live"
    /\ generator = "NoiseGenerator"
    /\ isPlaying
    /\ bufferSourcesCreated = 2
    /\ noiseSource = 2

\* C15 (as claimed): with the stubbed audio context as the backend, no
\* construction and no operation of the three classes fails.
C15_StubbedContextNeverFails ==
    phetAudioContext = "stubbed" => pc # "failed"

\* C21 (as claimed): a Property that is a member of the set of enable-control
\* Properties is subscribed, also when it was added twice and removed once.
C21_MembersStaySubscribed ==
    pc = "live" =>
        \A s \in AllSignals : Count(enableControlProperties, s) > 0 => linked[s] > 0

\* C22: removeEnableControlProperty of a Property that is not a member changes
\* neither the members, nor any subscription, nor fullyEnabled, nor the gain
\* commands; so a second removal of a Property that was a member once has the
\* result of the first.
C22_RemoveOfNonMemberIsNoOp ==
    [][\A s \in AllSignals :
          (Count(enableControlProperties, s) = 0 /\ RemoveEnableControlProperty(s))
              => UNCHANGED <<enableControlProperties, linked, removers, fullyEnabled,
                             gainCommands, sigValue>>]_vars

\* C22 witness: a supplied Property has been removed, so that removing it again
\* is a removal of a non-member, while two other members are subscribed
C22_Witness ==
    /\ pc = "live"
    /\ options.enableControlProperties = << "s1", "s2" >>
    /\ enableControlProperties = << "s2", LocalSignal >>
    /\ linked["s1"] = 0
    /\ linked["s2"] = 1
    /\ linked[LocalSignal] = 1

\* C23: right after a construction that succeeds, locallyEnabled is true, the
\* members are the supplied Properties followed by the local one, fullyEnabled
\* is the AND of the supplied Properties' values, outputLevel is the initial
\* level, and the constructor's gain commands end at outputLevel when that AND
\* is true and at 0 when it is not.
C23_StateAfterConstruction ==
    [][(pc = "new" /\ pc' = "live")
          => LET supplied == options'.enableControlProperties
                 allTrue == AllMembersTrue(supplied, sigValue')
                 final == IF allTrue THEN outputLevel' ELSE 0
             IN  /\ sigValue'[LocalSignal]
                 /\ enableControlProperties' = Append(supplied, LocalSignal)
                 /\ fullyEnabled' = allTrue
                 /\ outputLevel' = options'.initialOutputLevel
                 /\ gainCommands' # << >>
                 /\ gainCommands'[Len(gainCommands')].value = final
                 /\ SteadyStateGain(gainCommands') = final]_vars

\* C23 witness: constructed at level 2 with two supplied Properties of which
\* the second reads false: disabled, and the constructor's commands end at 0
C23_Witness ==
    /\ pc = "live"
    /\ options.initialOutputLevel = 2
    /\ options.enableControlProperties = << "s1", "s2" >>
    /\ enableControlProperties = << "s1", "s2", LocalSignal >>
    /\ sigValue["s1"] /\ ~sigValue["s2"] /\ sigValue[LocalSignal]
    /\ ~fullyEnabled
    /\ gainCommands = << SetValueAtTime(2, 0), SetValueAtTime(2, 0),
                         LinearRampToValueAtTime(0, DEFAULT_LINEAR_GAIN_CHANGE_TIME) >>

\* C24: setOutputLevel(L, 0) issues one set-value command of L at the current
\* time if and only if the generator is fully enabled or L is 0; otherwise it
\* issues no gain command; in both cases L becomes the output level.
C24_ImmediateSetWhenEnabledOrZero ==
    [][\A level \in GainLevels :
          SetOutputLevel(level, 0)
              => /\ outputLevel' = level
                 /\ gainCommands' = IF fullyEnabled \/ level = 0
                                    THEN Append(gainCommands, SetValueAtTime(level, now))
                                    ELSE gainCommands]_vars

\* C24 witness: an enabled generator was set to level 2 at time 1 at once
C24_Witness ==
    /\ pc = "live"
    /\ fullyEnabled
    /\ outputLevel = 2
    /\ options.initialOutputLevel = 1
    /\ LastCommand = SetValueAtTime(2, 1)

\* C25: setOutputLevel(L, tc) with tc > 0, or with tc left out (the default
\* time constant is used), issues exactly one exponential approach toward L
\* starting at the current time when the generator is fully enabled, and no
\* gain command when it is not; L becomes the output level.
C25_ExponentialApproachWhenEnabled ==
    [][\A level \in GainLevels, tc \in TimeConstants \ {0} :
          SetOutputLevel(level, tc)
              => /\ outputLevel' = level
                 /\ gainCommands' =
                       IF fullyEnabled
                       THEN Append(gainCommands,
                                   SetTargetAtTime(level, now,
                                                   IF tc = Undefined
                                                   THEN DEFAULT_TIME_CONSTANT ELSE tc))
                       ELSE gainCommands]_vars

\* C25 witness: an enabled generator approaches level 2 from time 1 on
C25_Witness ==
    /\ pc = "live"
    /\ fullyEnabled
    /\ outputLevel = 2
    /\ options.initialOutputLevel = 1
    /\ LastCommand = SetTargetAtTime(2, 1, DEFAULT_TIME_CONSTANT)

\* C26 (as claimed): the output level of a constructed generator is never
\* negative.
C26_OutputLevelNeverNegative ==
    pc = "live" => outputLevel >= 0

\* C27: dispose() leaves the connection list, the routing of the master gain
\* node and the output level as they were.
C27_DisposeKeepsConnections ==
    [][Dispose => UNCHANGED <<connectionList, routed, outputLevel>>]_vars

\* C27 witness: a disposed generator that is still connected to both sinks
C27_Witness ==
    /\ pc = "live"
    /\ enableControlProperties = << >>
    /\ \A s \in AllSignals : linked[s] = 0
    /\ options.connectImmediately
    /\ routed = Sinks
    /\ connectionList = << "a" >>

\* C28 (as claimed): the connection list records exactly the sinks to which the
\* master gain node is routed: isConnectedTo(s) holds if and only if the node
\* is routed to s, the destination connected by the constructor included.
C28_ConnectionListMatchesRouting ==
    pc = "live" =>
        \A sink \in Sinks : IsConnectedTo(connectionList, sink) <=> sink \in routed

\* C29: connect(s) and disconnect(s) change the entries of no other sink, and
\* leave outputLevel, locallyEnabled, fullyEnabled and the members of the
\* enable control as they were; disconnect(s) for a sink without an entry
\* leaves the connection list as it was.
C29_ConnectTouchesOneSinkOnly ==
    [][\A sink \in Sinks :
          /\ (Connect(sink) \/ Disconnect(sink))
                => /\ \A other \in Sinks \ {sink} :
                          /\ Count(connectionList', other) = Count(connectionList, other)
                          /\ IsConnectedTo(connectionList', other)
                                = IsConnectedTo(connectionList, other)
                   /\ UNCHANGED <<outputLevel, sigValue, fullyEnabled,
                                  enableControlProperties>>
          /\ (Disconnect(sink) /\ Count(connectionList, sink) = 0)
                => connectionList' = connectionList]_vars

\* C29 witness: the destination, routed by the constructor and without an
\* entry, has been disconnected; the three entries of the other sink are there
C29_Witness ==
    /\ pc = "live"
    /\ options.connectImmediately
    /\ routed = {"a"}
    /\ connectionList = << "a", "a", "a" >>

\* C30: the pool of a PitchedPopGenerator has numPopGenerators voices from
\* construction on, playPop neither adds nor drops a voice, and the cursor is
\* at least 0 and less than the number of voices in every state.
C30_PoolIsFixed ==
    [][/\ \A n \in 1..MaxVoices, level \in Levels,
             items \in SeqsUpTo(ExternalSignals, MaxInitialSignals) :
             (ConstructPitchedPopGenerator(n, level, items) /\ pc' = "live")
                 => (Len(soundSources') = n /\ nextSoundSourceIndex' = 0)
       /\ pc = "live" => Len(soundSources') = Len(soundSources)
       /\ (pc' = "live" /\ generator' = "PitchedPopGenerator")
             => (nextSoundSourceIndex' >= 0 /\ nextSoundSourceIndex' < Len(soundSources'))]_vars

\* C30 witness: a pool of two voices after five pops: the cursor has wrapped
\* twice and the pool still has two voices
C30_Witness ==
    /\ pc = "live"
    /\ generator = "PitchedPopGenerator"
    /\ Len(soundSources) = 2
    /\ Len(retuneLog) = 5
    /\ nextSoundSourceIndex = 1

\* the calls among cs that were made on the gain of a voice
GainCallsOf(cs) == SelectSeq(cs, LAMBDA c : c.param = "gain")

\* C31: every playPop that is carried out calls the nodes of one voice only,
\* the one under the cursor.  On the gain of that voice the calls are, in this
\* order: cancelScheduledValues at now, setValueAtTime of 0 at now, the
\* approach to 1 at now and the approach to 0 at now + duration (the duration
\* given, or the default one when none is given); the voices that are not
\* under the cursor keep their oscillator frequencies.
C31_PopCommandsGoToOneVoice ==
    [][\A relativePitch \in RelativePitches, duration \in PopDurations :
          (/\ PlayPopWithDuration(relativePitch, duration)
           /\ fullyEnabled
           /\ ~RelativePitchAsserted(assertionsEnabled, relativePitch))
              => LET gainCalls == GainCallsOf(popCalls')
                     length == IF duration \in {Undefined, 0}
                               THEN DEFAULT_POP_DURATION ELSE duration
                 IN  /\ popCalls' # << >>
                     /\ \A i \in 1..Len(popCalls') :
                            popCalls'[i].voice = nextSoundSourceIndex
                     /\ Len(gainCalls) = 4
                     /\ gainCalls[1].method = "cancelScheduledValues"
                     /\ gainCalls[1].time = now
                     /\ popCalls'[1] = gainCalls[1]
                     /\ gainCalls[2].method = "setValueAtTime"
                     /\ gainCalls[2].value = 0 /\ gainCalls[2].time = now
                     /\ gainCalls[3].method = "setTargetAtTime"
                     /\ gainCalls[3].value = 1 /\ gainCalls[3].time = now
                     /\ gainCalls[4].method = "setTargetAtTime"
                     /\ gainCalls[4].value = 0 /\ gainCalls[4].time = now + length
                     /\ \A v \in 1..Len(soundSources) :
                            v # nextSoundSourceIndex + 1
                                => soundSources'[v] = soundSources[v]]_vars

\* C31 witness: the second pop of a pool of three, made at time 1 with a
\* duration of 2, has called the second voice and scheduled its decay at 3
C31_Witness ==
    /\ pc = "live"
    /\ generator = "PitchedPopGenerator"
    /\ Len(soundSources) = 3
    /\ retuneLog = << 0, 1 >>
    /\ Len(popCalls) = 6
    /\ popCalls[1].voice = 1
    /\ popCalls[1].method = "cancelScheduledValues"
    /\ popCalls[6].time = 3
    /\ now = 1

\* C32: a playPop made while the generator is not fully enabled makes no call
\* on any voice and leaves the cursor, the voices and the record of retuned
\* voices as they were; the cursor therefore always stands at the number of
\* pops carried out so far, modulo the number of voices.
C32_IgnoredPopChangesNothing ==
    [][/\ \A relativePitch \in RelativePitches, duration \in PopDurations :
             (PlayPopWithDuration(relativePitch, duration) /\ ~fullyEnabled)
                 => /\ popCalls' = << >>
                    /\ UNCHANGED <<soundSources, nextSoundSourceIndex, retuneLog>>
       /\ (pc' = "live" /\ generator' = "PitchedPopGenerator")
             => nextSoundSourceIndex' = Len(retuneLog') % Len(soundSources')]_vars

\* C32 witness: in a build without assertions, four calls of which two were
\* ignored; the two carried out took the first and the second voice
C32_Witness ==
    /\ pc = "live"
    /\ generator = "PitchedPopGenerator"
    /\ ~assertionsEnabled
    /\ Len(soundSources) = 3
    /\ playPopCalls = 4
    /\ retuneLog = << 0, 1 >>
    /\ nextSoundSourceIndex = 2
    /\ popCalls # << >>
    /\ popCalls[1].voice = 1

\* the calls among cs that were made on the frequency of an oscillator
FrequencyCallsOf(cs) == SelectSeq(cs, LAMBDA c : c.param = "frequency")

\* min + p * ( max - min ) for the pitch range 220..660 Hz and the relative
\* pitches 0, 1 and 3/2 (counted in halves)
InterpolatedPitch(relativePitch) ==
    CASE relativePitch = 0 -> 220
      [] relativePitch = 2 -> 660
      [] relativePitch = 3 -> 880

\* whether a step is a playPop that was rejected: nothing was called and the
\* pool is as before
PopRejected ==
    /\ popCalls' = << >>
    /\ UNCHANGED <<soundSources, nextSoundSourceIndex, retuneLog>>

C34_UnknownNoiseTypeFails ==
    (generator = "NoiseGenerator" /\ noiseType \notin {"white", "pink", "brown"})
        => /\ pc = "failed"
           /\ ~isPlaying
           /\ noiseSource = 0
           /\ bufferSourcesCreated = 0
           /\ stoppedSources = << >>

\* C34 witness: on Web Audio the construction with noiseType 'violet' failed
\* after the SoundGenerator constructor had run
C34_Witness ==
    /\ generator = "NoiseGenerator"
    /\ noiseType = "violet"
    /\ phetAudioContext = "webAudio"
    /\ pc = "failed"
    /\ nodeCreated
    /\ linked[LocalSignal] = 1

\* the buffer sources that were started and not stopped since
LiveSources == {n \in 1..bufferSourcesCreated :
                   \A i \in 1..Len(stoppedSources) : stoppedSources[i] # n}

\* C35: for a NoiseGenerator, isPlaying holds exactly when noiseSource is not
\* null; the buffer sources started and not yet stopped are the one in
\* noiseSource, or none; no buffer source is stopped twice; a stop() that takes
\* effect stops the buffer source that the latest start() created.
C35_PlayingIffSourceExists ==
    [][(pc' = "live" /\ generator' = "NoiseGenerator")
          => /\ isPlaying' <=> noiseSource' # 0
             /\ LiveSources' = IF isPlaying' THEN {noiseSource'} ELSE {}
             /\ \A i, j \in 1..Len(stoppedSources') :
                    stoppedSources'[i] = stoppedSources'[j] => i = j
             /\ (Stop /\ isPlaying)
                    => /\ stoppedSources' = Append(stoppedSources, bufferSourcesCreated)
                       /\ noiseSource = bufferSourcesCreated
             /\ (Start /\ ~isPlaying)
                    => /\ noiseSource' = bufferSourcesCreated + 1
                       /\ bufferSourcesCreated' = bufferSourcesCreated + 1]_vars

\* C35 witness: two buffer sources were started and stopped in turn and the
\* third is playing
C35_Witness ==
    /\ pc = "live"
    /\ generator = "NoiseGenerator"
    /\ isPlaying
    /\ noiseSource = 3
    /\ stoppedSources = << 1, 2 >>

\* C36: a SharedSoundClip whose soundClip was never read has constructed no
\* clip; once it was read, exactly one clip has been constructed for it, and
\* every read of it returned that one clip, which _soundClip still holds.
C36_ClipConstructedOnceOnFirstRead ==
    /\ \A c \in SharedSoundClips :
          /\ soundClipReads[c] = << >> => _soundClip[c] \in {NotLoaded, Null}
          /\ \A i \in 1..Len(soundClipReads[c]) :
                /\ soundClipReads[c][i] # Null
                /\ soundClipReads[c][i] = soundClipReads[c][1]
                /\ soundClipReads[c][i] = _soundClip[c]
    /\ proxiesConstructed = Cardinality({c \in SharedSoundClips : soundClipReads[c] # << >>})
    /\ \A c, d \in SharedSoundClips :
          (c # d /\ soundClipReads[c] # << >> /\ soundClipReads[d] # << >>)
              => _soundClip[c] # _soundClip[d]

\* C36 witness: one player was read three times and got the first clip each
\* time; the other one is loaded and was never read
C36_Witness ==
    /\ soundClipReads["toggleOffSoundPlayer"] = << 1, 1, 1 >>
    /\ _soundClip["toggleOffSoundPlayer"] = 1
    /\ _soundClip["checkboxCheckedSoundPlayer"] = Null
    /\ proxiesConstructed = 1

\* C37: a change of iconIndexProperty asks for the icon-selected sound, once,
\* when currentScreenProperty is null, and for nothing when it holds a screen;
\* no other step asks for the icon-selected sound.
C37_IconSoundOnHomeScreenOnly ==
    [][/\ \A index \in IconIndexes :
             (SetIconIndex(index) /\ index # iconIndexProperty /\ screenSelection = "live")
                 => IF currentScreenProperty = Null
                    THEN playedSounds' = Append(playedSounds, "ICON_SELECTED")
                    ELSE playedSounds' = playedSounds
       /\ (\A index \in IconIndexes : ~SetIconIndex(index) \/ index = iconIndexProperty)
             => \/ playedSounds' = playedSounds
                \/ /\ Len(playedSounds') = Len(playedSounds) + 1
                   /\ playedSounds'[Len(playedSounds')] # "ICON_SELECTED"]_vars

\* C37 witness: on the first screen the icon index changed without a sound;
\* back on the home screen it changed again and the icon sound was asked for
C37_Witness ==
    /\ screenSelection = "live"
    /\ playedSounds = << "OTHER_SCREEN", "HOME_SCREEN", "ICON_SELECTED" >>
    /\ currentScreenProperty = Null
    /\ iconIndexProperty = 0

\* C38: every change of currentScreenProperty asks for exactly one sound, the
\* home-screen sound when the new value is null and the other-screen sound
\* otherwise; setting it to the value it has asks for nothing, and the
\* construction asks for nothing.
C38_OneSoundPerScreenChange ==
    [][/\ \A screen \in Screens :
             (SetCurrentScreen(screen) /\ screenSelection = "live")
                 => IF screen = currentScreenProperty
                    THEN playedSounds' = playedSounds
                    ELSE playedSounds' =
                             Append(playedSounds, IF screen = Null THEN "HOME_SCREEN"
                                                  ELSE "OTHER_SCREEN")
       /\ NewScreenSelectionSoundGenerator
             => (playedSounds = << >> /\ playedSounds' = << >>)
       /\ screenSelection = "none" => playedSounds' = << >>]_vars

\* C38 witness: from the home screen to the first screen, on to the second and
\* back home: three changes, three sounds
C38_Witness ==
    /\ screenSelection = "live"
    /\ currentScreenProperty = Null
    /\ playedSounds = << "OTHER_SCREEN", "OTHER_SCREEN", "HOME_SCREEN" >>

====
